---- MODULE Spec2Model ----
(***************************************************************************)
(* Model of the ridership pipeline of analysis.py:                         *)
(*   load_and_preprocess_data  (rename, forward-fill, separator removal,   *)
(*                              numeric conversion, melt, band mapping,    *)
(*                              composite key, removal of missing values)  *)
(*   create_heatmap            (selection of the records fed to the pivot) *)
(*   create_report             (per-band / per-key / per-line aggregates)  *)
(*                                                                         *)
(* Text is a sequence of tokens (one token per character of the source     *)
(* data; Japanese literals of the source are written in romanised form,    *)
(* since module strings are ASCII).  A cell is a record: na = TRUE is      *)
(* pandas' NaN, otherwise s holds the text or v the number.                *)
(***************************************************************************)
EXTENDS Integers, Sequences, FiniteSets, TLC

VARIABLES
  pc,         \* position in the run
  raw,        \* the table as read_csv parsed it (analysis.py:11)
  df,         \* the wide table of load_and_preprocess_data
  tidy,       \* df_melted; once returned, the df of the other functions
  err,        \* the exception that ended the run and the line raising it
  call,       \* the arguments of the create_heatmap call
  line_data,  \* create_heatmap: the records given to pivot_table
  report      \* create_report: the fields of the report

vars == <<pc, raw, df, tidy, err, call, line_data, report>>

(* ------------------------------ bounds -------------------------------- *)

\* largest number of data rows of an input table
MaxRows == 2

(* ------------------------------ values -------------------------------- *)

NoError == [kind |-> "", line |-> 0]
Raised(kind, line) == [kind |-> kind, line |-> line]

NaN == [na |-> TRUE, s |-> <<>>]
Txt(s) == [na |-> FALSE, s |-> s]
NaNValue == [na |-> TRUE, v |-> 0]
Num(n) == [na |-> FALSE, v |-> n]

Range(f) == {f[i] : i \in DOMAIN f}

(* ----------------------- schema tables of the code -------------------- *)

\* analysis.py:14-20  (事業者名, 路線, 方向, 発駅, 着駅, then the 19 band labels)
new_columns ==
  << "operator", "line", "direction", "origin", "destination",
     "first-6:59", "7:00-7:29", "7:30-7:59", "8:00-8:29", "8:30-8:59",
     "9:00-9:29", "9:30-9:59", "10:00-10:59", "11:00-12:59", "13:00-14:59",
     "15:00-16:59", "17:00-17:59", "18:00-18:59", "19:00-19:59", "20:00-20:59",
     "21:00-21:59", "22:00-22:59", "23:00-23:59", "24:00-last" >>

\* analysis.py:24
fill_columns == << "operator", "line", "direction" >>

\* analysis.py:37
id_vars == << "operator", "line", "direction", "origin", "destination" >>

\* analysis.py:43-48
time_order ==
  << "first-6h", "7h-early", "7h-late", "8h-early", "8h-late",
     "9h-early", "9h-late", "10h", "11-12h", "13-14h",
     "15-16h", "17h", "18h", "19h", "20h",
     "21h", "22h", "23h", "24h-onward" >>

\* analysis.py:51-71
time_mapping ==
  [ k \in { "first-6:59", "7:00-7:29", "7:30-7:59", "8:00-8:29", "8:30-8:59",
            "9:00-9:29", "9:30-9:59", "10:00-10:59", "11:00-12:59",
            "13:00-14:59", "15:00-16:59", "17:00-17:59", "18:00-18:59",
            "19:00-19:59", "20:00-20:59", "21:00-21:59", "22:00-22:59",
            "23:00-23:59", "24:00-last" } |->
    CASE k = "first-6:59"  -> "first-6h"
      [] k = "7:00-7:29"   -> "7h-early"
      [] k = "7:30-7:59"   -> "7h-late"
      [] k = "8:00-8:29"   -> "8h-early"
      [] k = "8:30-8:59"   -> "8h-late"
      [] k = "9:00-9:29"   -> "9h-early"
      [] k = "9:30-9:59"   -> "9h-late"
      [] k = "10:00-10:59" -> "10h"
      [] k = "11:00-12:59" -> "11-12h"
      [] k = "13:00-14:59" -> "13-14h"
      [] k = "15:00-16:59" -> "15-16h"
      [] k = "17:00-17:59" -> "17h"
      [] k = "18:00-18:59" -> "18h"
      [] k = "19:00-19:59" -> "19h"
      [] k = "20:00-20:59" -> "20h"
      [] k = "21:00-21:59" -> "21h"
      [] k = "22:00-22:59" -> "22h"
      [] k = "23:00-23:59" -> "23h"
      [] k = "24:00-last"  -> "24h-onward" ]

\* analysis.py:88 / 188  start_company default 京阪電気鉄道
KeihanCompany == << "Keihan Electric Railway" >>
\* analysis.py:186  京阪本線
KeihanMainLine == << "Keihan Main Line" >>
\* analysis.py:187  下り, 上り
Down == << "down" >>
Up == << "up" >>
\* analysis.py:198  京都 (two characters)
Kyoto == << "kyo", "to" >>
\* analysis.py:205-206  データなし
NoData == "no data"

(* --------------------------- input tables ----------------------------- *)

OtherCompany == << "Other Railway" >>
\* 東京: shares both characters with 京都, in the other order
Tokyo == << "to", "kyo" >>

Digits == { "0", "1", "2", "3", "4", "5", "6", "7", "8", "9" }

CellZero == Txt(<< "0" >>)
CellPlain == Txt(<< "8", "0", "0" >>)
CellComma == Txt(<< "1", ",", "2", "0", "0" >>)
CellDash == Txt(<< "-" >>)
CellFill == Txt(<< "3", ",", "0", "0", "0" >>)

\* one CSV row of the expected layout: five leading cells, then the band
\* cells; a and b are the cells of 9:30-9:59 and 10:00-10:59, every other
\* band cell is f
RowOf(op, ln, dr, org, dst, a, b, f) ==
  << op, ln, dr, org, dst >> \o
  [ i \in 1..(Len(new_columns) - Len(id_vars)) |->
      IF i = 7 THEN a ELSE IF i = 8 THEN b ELSE f ]

\* rows that vary the hierarchical cells and the separator rows
PoolHier ==
  { RowOf(op, ld[1], ld[2], st[1], st[2], CellComma, CellDash, CellDash) :
      op \in { NaN, Txt(KeihanCompany) },
      ld \in { << NaN, NaN >>, << Txt(KeihanMainLine), Txt(Down) >>,
               << Txt(KeihanMainLine), NaN >> },
      st \in { << NaN, NaN >>, << Txt(Kyoto), Txt(Tokyo) >> } }

\* rows that vary the two station cells
PoolStation ==
  { RowOf(Txt(KeihanCompany), Txt(KeihanMainLine), Txt(Down), org, dst,
          CellDash, CellFill, CellFill) :
      org \in { NaN, Txt(Kyoto), Txt(Tokyo) },
      dst \in { NaN, Txt(Kyoto), Txt(Tokyo) } }

\* rows that vary the content of the band cells
PoolBand ==
  { RowOf(Txt(KeihanCompany), Txt(KeihanMainLine), Txt(Down),
          Txt(Tokyo), Txt(Kyoto), a, b, f) :
      a \in { NaN, CellZero, CellComma, CellDash },
      b \in { CellPlain, CellComma, CellDash },
      f \in { CellComma, CellDash } }

\* rows that vary operator, direction and which band values are missing
PoolHeat ==
  { RowOf(Txt(op), Txt(KeihanMainLine), Txt(dr), Txt(Tokyo), Txt(Kyoto),
          a, CellComma, CellDash) :
      op \in { KeihanCompany, OtherCompany },
      dr \in { Down, Up },
      a \in { CellComma, CellDash } }

\* two well-formed rows
PoolPlain ==
  { RowOf(Txt(KeihanCompany), Txt(KeihanMainLine), Txt(Down), Txt(Kyoto), dst,
          CellComma, CellFill, CellFill) : dst \in { NaN, Txt(Tokyo) } }

\* the rows of a table that is one column short, and of one that is one
\* column too wide
PoolNarrow == { SubSeq(r, 1, Len(r) - 1) : r \in PoolPlain }
PoolWide == { Append(r, NaN) : r \in PoolPlain }

Pools == { PoolHier, PoolStation, PoolBand, PoolHeat, PoolNarrow, PoolWide }

TablesOf(pool) == UNION { [1..n -> pool] : n \in 1..MaxRows }

(* ------------------------------- Init --------------------------------- *)

\* analysis.py:11  the state after read_csv: raw is the table as parsed
Init ==
  /\ pc = "read"
  /\ \E pool \in Pools : raw \in TablesOf(pool)
  /\ df = << >>
  /\ tidy = << >>
  /\ err = NoError
  /\ call = << >>
  /\ line_data = << >>
  /\ report = << >>

(* ----------------------- load_and_preprocess_data --------------------- *)

IndexOf(seq, x) == CHOOSE i \in 1..Len(seq) : seq[i] = x

Width(t) == Len(t[1])

Column(t, c) == [ r \in 1..Len(t) |-> t[r][c] ]

SetColumn(t, c, col) == [ r \in 1..Len(t) |-> [ t[r] EXCEPT ![c] = col[r] ] ]

\* a wider table is accepted, its extra columns ignored
LengthAtLeast(t) == Width(t) >= Len(new_columns)

\* analysis.py:21  the assignment needs as many names as the table has columns
LengthMatches(t) == Width(t) = Len(new_columns)

\* analysis.py:21  df.columns = new_columns (the row labels 0..n-1 are kept
\* in the field "index")
Rename ==
  /\ pc = "read"
  /\ IF LengthMatches(raw)
       THEN /\ df' = [ r \in 1..Len(raw) |->
                        [ c \in Range(new_columns) \cup { "index" } |->
                            IF c = "index" THEN r - 1
                            ELSE raw[r][IndexOf(new_columns, c)] ] ]
            /\ pc' = "renamed"
            /\ err' = err
       ELSE /\ df' = df
            /\ pc' = "failed"
            /\ err' = Raised("ValueError", 21)
  /\ UNCHANGED <<raw, tidy, call, line_data, report>>

\* no fill at all
FFillNone(col) == col

\* fillna(method='ffill') on one column: a blank cell takes the last
\* non-blank value above it, and stays blank when there is none
RECURSIVE FFillFrom(_, _, _)
FFillFrom(col, i, last) ==
  IF i > Len(col) THEN << >>
  ELSE LET cur == IF col[i].na THEN last ELSE col[i]
       IN  << cur >> \o FFillFrom(col, i + 1, cur)

FFill(col) == FFillFrom(col, 1, NaN)

\* analysis.py:25-26  the loop over fill_columns, from the k-th on
RECURSIVE FillColumns(_, _)
FillColumns(t, k) ==
  IF k > Len(fill_columns) THEN t
  ELSE FillColumns(SetColumn(t, fill_columns[k],
                             FFill(Column(t, fill_columns[k]))), k + 1)

\* analysis.py:23-26
FillHierarchy ==
  /\ pc = "renamed"
  /\ df' = FillColumns(df, 1)
  /\ pc' = "filled"
  /\ UNCHANGED <<raw, tidy, err, call, line_data, report>>

\* analysis.py:29  dropna(subset=['発駅', '着駅'], how='all')
IsSeparator(row) == row["origin"].na /\ row["destination"].na

\* how='any': a row with one blank station is removed too
KeepRowAny(row) == ~row["origin"].na /\ ~row["destination"].na

KeepRow(row) == ~IsSeparator(row)

DropSeparators ==
  /\ pc = "filled"
  /\ df' = SelectSeq(df, KeepRow)
  /\ pc' = "dropped"
  /\ UNCHANGED <<raw, tidy, err, call, line_data, report>>

AllDigits(s) == Len(s) > 0 /\ \A i \in 1..Len(s) : s[i] \in Digits

\* text that read_csv and to_numeric read as a number (cells are made of
\* digits, commas and dashes): digits, with an optional leading minus sign
IsNumericText(s) ==
  \/ AllDigits(s)
  \/ Len(s) > 1 /\ s[1] = "-" /\ AllDigits(Tail(s))

DigitValue(d) == CHOOSE n \in 0..9 : ToString(n) = d

RECURSIVE DigitsToNumber(_)
DigitsToNumber(s) ==
  IF Len(s) = 0 THEN 0
  ELSE 10 * DigitsToNumber(SubSeq(s, 1, Len(s) - 1)) + DigitValue(s[Len(s)])

ToNumber(s) ==
  IF s[1] = "-" THEN 0 - DigitsToNumber(Tail(s)) ELSE DigitsToNumber(s)

\* read_csv (analysis.py:11) gives a column the object dtype when some
\* non-blank cell of it is not a number; otherwise the column is int64 or
\* float64.  i is the position of the column in the parsed table.
IsObjectColumn(t, i) ==
  \E r \in 1..Len(t) : ~t[r][i].na /\ ~IsNumericText(t[r][i].s)

NotComma(ch) == ch # ","

\* analysis.py:33  str.replace(',', '')
StripCommas(s) == SelectSeq(s, NotComma)

\* analysis.py:33  pd.to_numeric(..., errors='coerce') of one cell
ParseCell(cell) ==
  IF cell.na THEN NaNValue
  ELSE IF IsNumericText(StripCommas(cell.s))
         THEN Num(ToNumber(StripCommas(cell.s)))
         ELSE NaNValue

\* the last band column is left out
BandColumnsShort == SubSeq(new_columns, Len(id_vars) + 1, Len(new_columns) - 1)

\* analysis.py:32  df.columns[5:]
BandColumns == SubSeq(new_columns, Len(id_vars) + 1, Len(new_columns))

\* the .str accessor exists only on object columns
StrAccessorFails(c) == ~IsObjectColumn(raw, IndexOf(new_columns, c))

\* analysis.py:31-33
ConvertBands ==
  /\ pc = "dropped"
  /\ IF \E k \in 1..Len(BandColumns) : StrAccessorFails(BandColumns[k])
       THEN /\ pc' = "failed"
            /\ err' = Raised("AttributeError", 33)
            /\ df' = df
       ELSE /\ pc' = "converted"
            /\ err' = err
            /\ df' = [ r \in 1..Len(df) |->
                        [ c \in DOMAIN df[r] |->
                            IF c \in Range(BandColumns)
                              THEN ParseCell(df[r][c]) ELSE df[r][c] ] ]
  /\ UNCHANGED <<raw, tidy, call, line_data, report>>

\* analysis.py:36-40  melt: one record per (band column, row), band column
\* by band column, with a fresh row label 0, 1, 2, ...
Melt(t) ==
  [ i \in 1..(Len(BandColumns) * Len(t)) |->
      LET k == ((i - 1) \div Len(t)) + 1
          j == ((i - 1) % Len(t)) + 1
      IN  [ index |-> i - 1,
            operator |-> t[j]["operator"],
            line |-> t[j]["line"],
            direction |-> t[j]["direction"],
            origin |-> t[j]["origin"],
            destination |-> t[j]["destination"],
            band |-> Txt(<< BandColumns[k] >>),
            value |-> t[j][BandColumns[k]] ] ]

MeltStep ==
  /\ pc = "converted"
  /\ tidy' = Melt(df)
  /\ pc' = "melted"
  /\ UNCHANGED <<raw, df, err, call, line_data, report>>

\* a mapping that lacks the key of the 10:00-10:59 column
MapLabelMissingKey(cell) ==
  IF cell.na THEN NaN
  ELSE IF cell.s[1] \in DOMAIN time_mapping \ { "10:00-10:59" }
         THEN Txt(<< time_mapping[cell.s[1]] >>)
         ELSE NaN

\* analysis.py:72  Series.map(time_mapping): a label that is no key gives NaN
MapLabel(cell) ==
  IF cell.na THEN NaN
  ELSE IF cell.s[1] \in DOMAIN time_mapping
         THEN Txt(<< time_mapping[cell.s[1]] >>)
         ELSE NaN

\* analysis.py:75  pd.Categorical(..., categories=time_order): a value that
\* is no category gives NaN
ToCategory(cell) ==
  IF cell.na THEN NaN
  ELSE IF cell.s[1] \in Range(time_order) THEN cell ELSE NaN

\* analysis.py:50-75
MapBands ==
  /\ pc = "melted"
  /\ tidy' = [ i \in 1..Len(tidy) |->
                [ tidy[i] EXCEPT !.band = ToCategory(MapLabel(@)) ] ]
  /\ pc' = "mapped"
  /\ UNCHANGED <<raw, df, err, call, line_data, report>>

\* analysis.py:78-79  fillna('')
FillEmpty(cell) == IF cell.na THEN Txt(<< >>) ELSE cell

\* analysis.py:80  発駅 + '-' + 着駅
StationPair(org, dst) == Txt(org.s \o << "-" >> \o dst.s)

\* analysis.py:77-80
MakeKeys ==
  /\ pc = "mapped"
  /\ tidy' = [ i \in 1..Len(tidy) |->
                LET org == FillEmpty(tidy[i].origin)
                    dst == FillEmpty(tidy[i].destination)
                IN  [ index |-> tidy[i].index,
                      operator |-> tidy[i].operator,
                      line |-> tidy[i].line,
                      direction |-> tidy[i].direction,
                      origin |-> org,
                      destination |-> dst,
                      band |-> tidy[i].band,
                      value |-> tidy[i].value,
                      key |-> StationPair(org, dst) ] ]
  /\ pc' = "keyed"
  /\ UNCHANGED <<raw, df, err, call, line_data, report>>

\* a zero is taken for a missing value
HasValueNonZero(rec) == ~rec.value.na /\ rec.value.v # 0

\* analysis.py:83  dropna(subset=['輸送人員'])
HasValue(rec) == ~rec.value.na

\* analysis.py:82-85
DropMissing ==
  /\ pc = "keyed"
  /\ tidy' = SelectSeq(tidy, HasValue)
  /\ pc' = "loaded"
  /\ UNCHANGED <<raw, df, err, call, line_data, report>>

(* ---------------------------- create_heatmap ------------------------- *)

\* analysis.py:97-105  the records given to pivot_table
\* start_idx is the row LABEL of the first record of start_company, and
\* iloc[start_idx:] then skips that many POSITIONS
CreateHeatmap ==
  /\ pc = "loaded"
  /\ \E line_name \in { KeihanMainLine }, direction \in { Down, Up },
        start_company \in { KeihanCompany } :
       LET hits == { i \in 1..Len(tidy) :
                       tidy[i].operator = Txt(start_company) }
           first == CHOOSE i \in hits : \A j \in hits : i <= j
           start_idx == tidy[first].index
           filtered_df == SubSeq(tidy, start_idx + 1, Len(tidy))
           OnLine(rec) == /\ rec.line = Txt(line_name)
                          /\ rec.direction = Txt(direction)
       IN  /\ call' = [ line_name |-> line_name, direction |-> direction,
                        start_company |-> start_company ]
           /\ IF hits = {}
                THEN /\ pc' = "failed"
                     /\ err' = Raised("IndexError", 98)
                     /\ line_data' = line_data
                ELSE /\ pc' = "heatmap"
                     /\ err' = err
                     /\ line_data' = SelectSeq(filtered_df, OnLine)
  /\ UNCHANGED <<raw, df, tidy, report>>

(* ----------------------------- create_report -------------------------- *)

\* str.contains(sub): sub occurs in s
Contains(s, sub) ==
  \E i \in 0..(Len(s) - Len(sub)) : SubSeq(s, i + 1, i + Len(sub)) = sub

\* analysis.py:198  the records whose origin or destination contains 京都
StationData(t, station_name) ==
  LET Hit(rec) == \/ ~rec.origin.na /\ Contains(rec.origin.s, station_name)
                  \/ ~rec.destination.na
                       /\ Contains(rec.destination.s, station_name)
  IN  SelectSeq(t, Hit)

RECURSIVE SumValues(_)
SumValues(t) ==
  IF Len(t) = 0 THEN 0 ELSE t[1].value.v + SumValues(Tail(t))

\* groupby('時間帯')['輸送人員'].mean(): one entry per category of the
\* ordered categorical, in the order of time_order; a category without
\* records has no mean (cnt = 0, pandas' NaN)
BandMeans(t) ==
  [ k \in 1..Len(time_order) |->
      LET InBand(rec) == rec.band = Txt(<< time_order[k] >>)
          grp == SelectSeq(t, InBand)
      IN  [ label |-> time_order[k], sum |-> SumValues(grp),
            cnt |-> Len(grp) ] ]

\* ties go to the later band
MeanGreaterOrEqual(a, b) == a.sum * b.cnt >= b.sum * a.cnt

\* mean of a > mean of b, for two groups that have records
MeanGreater(a, b) == a.sum * b.cnt > b.sum * a.cnt

MeanLess(a, b) == a.sum * b.cnt < b.sum * a.cnt

\* idxmax / idxmin: the position of the first extreme entry, entries
\* without a mean skipped; 0 when no entry has a mean
RECURSIVE ScanMax(_, _, _)
ScanMax(ser, i, best) ==
  IF i > Len(ser) THEN best
  ELSE IF ser[i].cnt = 0 THEN ScanMax(ser, i + 1, best)
  ELSE IF best = 0 \/ MeanGreater(ser[i], ser[best])
         THEN ScanMax(ser, i + 1, i)
         ELSE ScanMax(ser, i + 1, best)

RECURSIVE ScanMin(_, _, _)
ScanMin(ser, i, best) ==
  IF i > Len(ser) THEN best
  ELSE IF ser[i].cnt = 0 THEN ScanMin(ser, i + 1, best)
  ELSE IF best = 0 \/ MeanLess(ser[i], ser[best])
         THEN ScanMin(ser, i + 1, i)
         ELSE ScanMin(ser, i + 1, best)

\* analysis.py:202, 235  groupby('時間帯')['輸送人員'].mean().idxmax()
\* ("nan" when no band has a mean: idxmax of an all-NaN series)
BandIdxMax(t) ==
  LET ser == BandMeans(t)
      b == ScanMax(ser, 1, 0)
  IN  IF b = 0 THEN "nan" ELSE ser[b].label

\* analysis.py:203  groupby('時間帯')['輸送人員'].mean().idxmin()
BandIdxMin(t) ==
  LET ser == BandMeans(t)
      b == ScanMin(ser, 1, 0)
  IN  IF b = 0 THEN "nan" ELSE ser[b].label

\* the groups of groupby(col): the values of col, NaN left out
GroupKeys(t, col) == { t[i][col] : i \in { j \in 1..Len(t) : ~t[j][col].na } }

\* analysis.py:196-241  (lines 236, 239, 240 take idxmax / idxmin of a
\* series with one entry per group: with no group at all, as for an empty
\* table or a table whose line cells are all NaN, that is a ValueError.
\* Which of several extreme station pairs or lines is named depends on the
\* sort order of their names and is left out.)
CreateReport ==
  /\ pc = "loaded"
  /\ LET kyoto_data == StationData(tidy, Kyoto)
         fields ==
           [ kyoto_peak |-> IF Len(kyoto_data) > 0
                              THEN BandIdxMax(kyoto_data) ELSE NoData,
             kyoto_min |-> IF Len(kyoto_data) > 0
                             THEN BandIdxMin(kyoto_data) ELSE NoData,
             total_records |-> Len(tidy),
             total_lines |-> Cardinality(GroupKeys(tidy, "line")),
             total_stations |-> Cardinality(GroupKeys(tidy, "key")),
             peak_hour |-> BandIdxMax(tidy) ]
     IN  IF GroupKeys(tidy, "key") = {} \/ GroupKeys(tidy, "line") = {}
           THEN /\ pc' = "failed"
                /\ err' = IF GroupKeys(tidy, "key") = {}
                            THEN Raised("ValueError", 236)
                            ELSE Raised("ValueError", 239)
                /\ report' = [ kyoto_peak |-> fields.kyoto_peak,
                               kyoto_min |-> fields.kyoto_min ]
           ELSE /\ pc' = "report"
                /\ err' = err
                /\ report' = fields
  /\ UNCHANGED <<raw, df, tidy, call, line_data>>

Next ==
  \/ Rename
  \/ FillHierarchy
  \/ DropSeparators
  \/ ConvertBands
  \/ MeltStep
  \/ MapBands
  \/ MakeKeys
  \/ DropMissing
  \/ CreateHeatmap
  \/ CreateReport

Spec == Init /\ [][Next]_vars

(* ------------------------------- claims ------------------------------- *)

OriginAt == IndexOf(new_columns, "origin")
DestinationAt == IndexOf(new_columns, "destination")

WidthOk == Width(raw) = Len(new_columns)

\* load_and_preprocess_data returns its table (create_heatmap and
\* create_report leave the table as it is)
Returned == pc = "loaded"

\* df is the wide table after the separator rows were removed
Dropped ==
  \/ pc \in { "dropped", "converted", "melted", "mapped", "keyed" }
  \/ pc = "failed" /\ err.line = 33
  \/ Returned

\* the raw rows that are no separator rows, in table order
KeptRaw ==
  { q \in 1..Len(raw) : ~(raw[q][OriginAt].na /\ raw[q][DestinationAt].na) }

\* the last row at or above r whose cell in column c is not blank, 0 if none
LastValueAbove(r, c) ==
  LET at == IndexOf(new_columns, c)
      above == { q \in 1..r : ~raw[q][at].na }
  IN  IF above = {} THEN 0 ELSE CHOOSE q \in above : \A p \in above : p <= q

\* C1 as stated: after the forward-fill no row has a blank operator, line or
\* direction cell unless every cell of the row is blank.
C1_NoBlankHierarchy ==
  pc = "filled" =>
    \A r \in 1..Len(df) : \A k \in 1..Len(fill_columns) :
      df[r][fill_columns[k]].na =>
        \A i \in 1..Len(raw[r]) : raw[r][i].na

\* C1 amended: after the forward-fill a hierarchical cell is blank exactly
\* when its column has no non-blank cell at or above the row; otherwise it
\* holds the nearest non-blank value at or above it.
C1_FilledFromNearestAbove ==
  pc = "filled" =>
    \A r \in 1..Len(df) : \A k \in 1..Len(fill_columns) :
      LET c == fill_columns[k]
          q == LastValueAbove(r, c)
      IN  IF q = 0 THEN df[r][c].na
          ELSE df[r][c] = raw[q][IndexOf(new_columns, c)]

\* a blank operator cell took the value above it, in a table whose first
\* row has a blank hierarchical cell that stays blank
C1_Witness ==
  /\ pc = "filled"
  /\ \E r \in 1..Len(df) : raw[r][1].na /\ ~df[r]["operator"].na
  /\ \E k \in 1..Len(fill_columns) : df[1][fill_columns[k]].na

Mapped == pc \in { "mapped", "keyed" } \/ Returned

\* C3: every column label that is melted is a key of the mapping, every
\* tidy record carries the one category the mapping gives for the band
\* column it was melted from, never an absent category, and the mapping step
\* drops no record.
C3_EveryBandMapped ==
  /\ Range(BandColumns) = DOMAIN time_mapping
  /\ Mapped =>
       \A i \in 1..Len(tidy) :
         LET k == (tidy[i].index \div Len(df)) + 1
         IN  /\ ~tidy[i].band.na
             /\ tidy[i].band.s = << time_mapping[BandColumns[k]] >>
             /\ tidy[i].band.s[1] \in Range(time_order)
  /\ pc = "mapped" => Len(tidy) = Len(BandColumns) * Len(df)

C3_Witness ==
  /\ pc = "mapped"
  /\ \A k \in 1..Len(time_order) :
       \E i \in 1..Len(tidy) : tidy[i].band = Txt(<< time_order[k] >>)

\* C4 as stated: the load never fails because of the content of a band cell.
C4_BandCellsNeverFail ==
  ~(pc = "failed" /\ err.line = 33)

\* C5: the wide table that is melted holds exactly the rows whose origin and
\* destination are not both blank (a row with one of them blank is kept),
\* and every tidy record carries the stations of such a row.
C5_SeparatorRowsRemoved ==
  /\ Dropped => { df[j]["index"] : j \in 1..Len(df) } = { q - 1 : q \in KeptRaw }
  /\ Returned =>
       \A i \in 1..Len(tidy) :
         LET j == (tidy[i].index % Len(df)) + 1
             q == df[j]["index"] + 1
         IN  /\ q \in KeptRaw
             /\ tidy[i].origin = FillEmpty(raw[q][OriginAt])
             /\ tidy[i].destination = FillEmpty(raw[q][DestinationAt])
             /\ ~(tidy[i].origin.s = << >> /\ tidy[i].destination.s = << >>)

\* a separator row with a number in a band cell and a filled operator cell
\* was removed, and the returned table has records
C5_Witness ==
  /\ pc = "loaded"
  /\ Len(tidy) > 0
  /\ \E q \in 1..Len(raw) :
       /\ q \notin KeptRaw
       /\ \E i \in 1..Len(raw[q]) : ~ParseCell(raw[q][i]).na
       /\ ~raw[q][1].na

\* C6: in the table that is returned, a band cell of a kept row whose parsed
\* value is a number (zero included) has exactly one tidy record, with that
\* value and the row's identifying fields; a cell whose value is missing has
\* none; nothing else is in the table.
C6_RemovedIffValueMissing ==
  Returned =>
    LET n == Len(df)
    IN  /\ \A i \in 1..Len(tidy) :
              LET k == (tidy[i].index \div n) + 1
                  j == (tidy[i].index % n) + 1
              IN  /\ tidy[i].index \in 0..(Len(BandColumns) * n - 1)
                  /\ ~tidy[i].value.na
                  /\ tidy[i].value = df[j][BandColumns[k]]
                  /\ tidy[i].operator = df[j]["operator"]
                  /\ tidy[i].line = df[j]["line"]
                  /\ tidy[i].direction = df[j]["direction"]
        /\ \A i \in 1..(Len(tidy) - 1) : tidy[i].index < tidy[i + 1].index
        /\ Len(tidy) =
             Cardinality({ x \in (1..n) \X (1..Len(BandColumns)) :
                             ~df[x[1]][BandColumns[x[2]]].na })

\* a record with value zero was kept and a record with a missing value
\* was removed
C6_Witness ==
  /\ pc = "loaded"
  /\ \E i \in 1..Len(tidy) : tidy[i].value.v = 0
  /\ \E j \in 1..Len(df) : df[j]["9:30-9:59"].na \/ df[j]["10:00-10:59"].na

RECURSIVE SumOver(_, _)
\* the sum of f[x] for x in S
SumOver(S, f) ==
  IF S = {} THEN 0
  ELSE LET x == CHOOSE y \in S : TRUE IN f[x] + SumOver(S \ { x }, f)

\* the number in a raw band cell, 0 for a cell that has none
RawNumber(q, i) ==
  LET v == ParseCell(raw[q][i]) IN IF v.na THEN 0 ELSE v.v

\* the composite key of raw row q
RawKey(q) ==
  Txt(FillEmpty(raw[q][OriginAt]).s \o << "-" >>
        \o FillEmpty(raw[q][DestinationAt]).s)

\* the band cells of the kept raw rows with the given key
RawCellsOf(key) ==
  { q \in KeptRaw : RawKey(q) = key } \X ((Len(id_vars) + 1)..Len(new_columns))

\* C7: in the table that is returned, for every composite key the tidy values
\* with that key sum to the numbers in the band cells of the kept raw rows
\* with that key, cells without a number counting nothing.
C7_SumsPerKeyAgree ==
  Returned =>
    \A key \in { tidy[i].key : i \in 1..Len(tidy) }
                 \cup { RawKey(q) : q \in KeptRaw } :
      SumOver({ i \in 1..Len(tidy) : tidy[i].key = key },
              [ i \in 1..Len(tidy) |-> tidy[i].value.v ])
        = SumOver(RawCellsOf(key),
                  [ x \in RawCellsOf(key) |-> RawNumber(x[1], x[2]) ])

\* two raw rows share a key, one of their band cells has no number, and the
\* values of the key sum to more than one cell holds
C7_Witness ==
  /\ pc = "loaded"
  /\ \E q1, q2 \in KeptRaw :
       /\ q1 # q2
       /\ RawKey(q1) = RawKey(q2)
       /\ \E i \in 1..Len(raw[q1]) : i > Len(id_vars) /\ ParseCell(raw[q1][i]).na
       /\ SumOver({ i \in 1..Len(tidy) : tidy[i].key = RawKey(q1) },
                  [ i \in 1..Len(tidy) |-> tidy[i].value.v ]) > 3000

\* the records of table t in the k-th band of time_order
InBandNo(t, k) == { i \in 1..Len(t) : t[i].band = Txt(<< time_order[k] >>) }

BandSum(t, k) == SumOver(InBandNo(t, k), [ i \in 1..Len(t) |-> t[i].value.v ])

BandCount(t, k) == Cardinality(InBandNo(t, k))

\* the sum and the number of the values of each band of t
BandTotals(t) ==
  [ k \in 1..Len(time_order) |->
      [ sum |-> BandSum(t, k), cnt |-> BandCount(t, k) ] ]

\* label is the first band, in the order of time_order, among the bands of t
\* with records whose mean is the largest
IsFirstMaxBand(t, label) ==
  LET g == BandTotals(t)
  IN  \E k \in 1..Len(time_order) :
        /\ time_order[k] = label
        /\ g[k].cnt > 0
        /\ \A j \in 1..Len(time_order) :
             g[j].cnt > 0 =>
               /\ g[j].sum * g[k].cnt <= g[k].sum * g[j].cnt
               /\ j < k => g[j].sum * g[k].cnt < g[k].sum * g[j].cnt

\* the same for the smallest mean
IsFirstMinBand(t, label) ==
  LET g == BandTotals(t)
  IN  \E k \in 1..Len(time_order) :
        /\ time_order[k] = label
        /\ g[k].cnt > 0
        /\ \A j \in 1..Len(time_order) :
             g[j].cnt > 0 =>
               /\ g[j].sum * g[k].cnt >= g[k].sum * g[j].cnt
               /\ j < k => g[j].sum * g[k].cnt > g[k].sum * g[j].cnt

\* create_report has run (to its end, or to the exception of line 236)
ReportCalled == report # << >>

\* C8: the per-band aggregation of the report names, for the maximum and for
\* the minimum, a band that has records and whose grouped mean is extreme,
\* and among several such bands the first in canonical order.
C8_FirstExtremeBandInCanonicalOrder ==
  /\ pc = "report" => IsFirstMaxBand(tidy, report.peak_hour)
  /\ (ReportCalled /\ Len(StationData(tidy, Kyoto)) > 0) =>
       /\ IsFirstMaxBand(StationData(tidy, Kyoto), report.kyoto_peak)
       /\ IsFirstMinBand(StationData(tidy, Kyoto), report.kyoto_min)

\* two bands share the largest mean, another band has a smaller mean, and a
\* band has no record
C8_Witness ==
  /\ pc = "report"
  /\ \E j, k, m, e \in 1..Len(time_order) :
       /\ j < k
       /\ time_order[j] = report.peak_hour
       /\ BandCount(tidy, k) > 0
       /\ BandSum(tidy, j) * BandCount(tidy, k) = BandSum(tidy, k) * BandCount(tidy, j)
       /\ BandCount(tidy, m) > 0
       /\ time_order[m] = report.kyoto_min
       /\ m # j
       /\ BandCount(tidy, e) = 0

\* C9 as stated: when no record's origin or destination contains the station
\* name, the report's filtered peak and minimum are the no-data sentinel and
\* create_report raises nothing.
C9_NoDataSentinelWithoutError ==
  (ReportCalled /\ Len(StationData(tidy, Kyoto)) = 0) =>
    /\ report.kyoto_peak = NoData
    /\ report.kyoto_min = NoData
    /\ pc # "failed"

\* C10 as stated: the records given to the pivot are the records at or after
\* the first record of start_company, in table order, that match the line
\* and the direction.
C10_HeatmapFromFirstStartCompanyRecord ==
  pc = "heatmap" =>
    LET hits == { i \in 1..Len(tidy) :
                    tidy[i].operator = Txt(call.start_company) }
        first == CHOOSE i \in hits : \A j \in hits : i <= j
        Wanted(rec) == /\ rec.line = Txt(call.line_name)
                       /\ rec.direction = Txt(call.direction)
    IN  line_data = SelectSeq(SubSeq(tidy, first, Len(tidy)), Wanted)


====
